---------------------------- MODULE Spec2Model ----------------------------
(***************************************************************************)
(* Model of the gas-divergence diagnostic scripts under src/scripts:       *)
(*   find_diff_tx.py, compare_erigon_log.py, compare_all_gas.py,           *)
(*   compare_gas_block.py, check_delegation.py, check_type4.py.            *)
(* Modelled are the comparator loops, the log parsers, the cache file, the  *)
(* RPC client functions and the main flows that fetch from the endpoint.   *)
(*                                                                         *)
(* Python values: None and the "N/A" default are the empty tuple <<>>, a   *)
(* present integer v is <<v>>; a dict is the sequence of its <<key,value>> *)
(* pairs in insertion order (Python dicts keep insertion order).           *)
(***************************************************************************)
EXTENDS Integers, Sequences, FiniteSets, TLC

VARIABLES
    script,           \* which script runs
    pc,               \* position in its main flow
    erigon_gas,       \* index -> gas dict parsed from the Erigon log
    rpc_gas,          \* index -> gas dict fetched from RPC / loaded from cache
    todo,             \* what is left of the for loop's iterator
    differences,      \* list of difference records
    cumulative_diff,  \* running total (total_diff in compare_all_gas)
    reported,         \* the two summary lines printed after the loop, or None
    compared,         \* history: what the comparators run before on the same mappings reported
    log_text,         \* the Erigon log: a list of lines, each a list of characters
    lineno,           \* how many lines of it the parser has consumed
    parsed,           \* history: <<script, mapping>> of the parsers that ran before on it
    cache_file,       \* rpc_gas_23800003.json: None when absent, else <<its JSON text>>
    saved_rpc_gas,    \* history: <<the rpc_gas find_diff_tx held when it wrote the file>>
    method,           \* the JSON-RPC method of the request being made
    response,         \* what the endpoint answered to it
    outcome,          \* None, or <<what the client function returned or raised>>
    tx_hashes,        \* None, or <<the transactions member of the fetched block>>
    tx_i,             \* the index the receipt loop fetches next
    results,          \* compare_gas_block: the receipts of the checked indices
    tx79,             \* check_delegation: None, or <<transaction 79 of block 23800001>>
    delegation_addresses, \* check_delegation: the addresses of its authorization list
    found_refs,       \* check_delegation: the references found in block 23800003
    console,          \* the messages printed, in order (progress lines left out)
    exc,              \* "none", or the exception that ended the script
    failed,           \* history: the requests that gave no data
    requests          \* history: the receipt requests made, in order, with their answers

cmpVars == <<todo, differences, cumulative_diff, reported, compared>>
parseVars == <<log_text, lineno, parsed>>
cacheVars == <<cache_file, saved_rpc_gas>>
rpcVars == <<method, response, outcome>>
mainVars ==
    <<tx_hashes, tx_i, results, tx79, delegation_addresses, found_refs, console, exc, failed,
      requests>>

vars == <<script, pc, erigon_gas, rpc_gas, cmpVars, parseVars, cacheVars, rpcVars, mainVars>>

-----------------------------------------------------------------------------
(* Bounds of the model *)

\* transaction indices 0..MaxIdx
MaxIdx == 2

\* lines of an Erigon log
MaxLines == 3

Indices == 0 .. MaxIdx
\* gasUsed values of the two sources (100/200 against 100/250: equal, above, below)
ErigonVals == {100, 200}
RpcVals == {100, 250}

-----------------------------------------------------------------------------
(* Python built-ins *)

None == <<>>

\* list.insert position of insertion sort: sorted() is stable and ascending
RECURSIVE InsertSorted(_, _)
InsertSorted(x, s) ==
    IF s = <<>> THEN <<x>>
    ELSE IF x < Head(s) THEN <<x>> \o s
    ELSE <<Head(s)>> \o InsertSorted(x, Tail(s))

\* a plausible slip: iterate the keys as they come, without sorting
SortedUnsorted(s) == s

\* sorted(iterable) on integers
RECURSIVE Sorted(_)
Sorted(s) == IF s = <<>> THEN <<>> ELSE InsertSorted(Head(s), Sorted(Tail(s)))

\* iteration of a Python set: some order of its elements
RECURSIVE SetIter(_)
SetIter(S) ==
    IF S = {} THEN <<>>
    ELSE LET x == CHOOSE y \in S : TRUE IN <<x>> \o SetIter(S \ {x})

\* dict.keys(): the keys in insertion order
Keys(d) == [j \in 1 .. Len(d) |-> d[j][1]]

\* set(d.keys())
KeySet(d) == {d[j][1] : j \in 1 .. Len(d)}

\* d[k] for a key that is present
Item(d, k) == d[CHOOSE j \in 1 .. Len(d) : d[j][1] = k][2]

\* a plausible slip: d.get(k, 0), a missing entry read as gas 0
DictGetZero(d, k) == IF k \in KeySet(d) THEN <<Item(d, k)>> ELSE <<0>>

\* d.get(k): the value, or None
DictGet(d, k) == IF k \in KeySet(d) THEN <<Item(d, k)>> ELSE None

\* d[k] = v: overwrite in place, or append a new key
DictSet(d, k, v) ==
    IF k \in KeySet(d)
    THEN [j \in 1 .. Len(d) |-> IF d[j][1] = k THEN <<k, v>> ELSE d[j]]
    ELSE Append(d, <<k, v>>)

\* a plausible slip: d.get(i, {}).get("gasUsed", 0), a missing receipt read as gas 0
ReceiptGasZero(d, i) ==
    IF i \in KeySet(d) /\ "gasUsed" \in DOMAIN Item(d, i)
    THEN <<Item(d, i).gasUsed>>
    ELSE <<0>>

\* d.get(i, {}).get("gasUsed", "N/A") on a dict of receipt records
ReceiptGas(d, i) ==
    IF i \in KeySet(d) /\ "gasUsed" \in DOMAIN Item(d, i)
    THEN <<Item(d, i).gasUsed>>
    ELSE None

\* the parts of the state a run has not touched yet
IdleCompare ==
    todo = <<>> /\ differences = <<>> /\ cumulative_diff = 0 /\ reported = None /\ compared = <<>>
IdleParse == log_text = <<>> /\ lineno = 0 /\ parsed = <<>>
IdleCache == cache_file = None /\ saved_rpc_gas = None
NoRequest == method = "" /\ response = None /\ outcome = None
IdleMain ==
    /\ tx_hashes = None /\ tx_i = 0 /\ results = <<>>
    /\ tx79 = None /\ delegation_addresses = <<>> /\ found_refs = <<>>
    /\ console = <<>> /\ exc = "none" /\ failed = {} /\ requests = <<>>

-----------------------------------------------------------------------------
(* Comparator: the loops of find_diff_tx, compare_erigon_log, compare_all_gas *)

\* a plausible slip: the difference taken RPC minus Erigon
DiffSwapped(e_gas, r_gas) == r_gas - e_gas

\* diff = e_gas - r_gas
Diff(e_gas, r_gas) == e_gas - r_gas

\* a plausible slip: the total overwritten instead of accumulated
AccumulateOverwrite(total, diff) == diff

\* cumulative_diff += diff
Accumulate(total, diff) == total + diff

\* a plausible slip: the record appended before the total is updated
DiffRecordStale(i, e_gas, r_gas, diff, total) == <<i, e_gas, r_gas, diff, total - diff>>

\* (i, e_gas, r_gas, diff, cumulative_diff)
DiffRecord(i, e_gas, r_gas, diff, total) == <<i, e_gas, r_gas, diff, total>>

\* sorted(set(erigon_gas.keys()) | set(rpc_gas.keys()))
UnionKeys(e, r) == Sorted(SetIter(KeySet(e) \cup KeySet(r)))

\* dicts with the keys inserted in any order
OrderedDicts(K, V) ==
    UNION {{d \in [1 .. n -> K \X V] :
               \A a, b \in 1 .. n : a # b => d[a][1] # d[b][1]} : n \in 0 .. Cardinality(K)}

\* dicts filled in ascending key order (the fetch loop enumerates the hashes)
AscendingDicts(K, V) ==
    {d \in OrderedDicts(K, V) : \A a \in 1 .. Len(d) - 1 : d[a][1] < d[a + 1][1]}

\* compare_all_gas keeps records: {"gasUsed": gas} and {"gasUsed", "cumulativeGas", "hash"}
ErigonReceipts(d) == [j \in 1 .. Len(d) |-> <<d[j][1], [gasUsed |-> d[j][2]]>>]
RpcReceipts(d) ==
    [j \in 1 .. Len(d) |->
        <<d[j][1], [gasUsed |-> d[j][2], cumulativeGas |-> d[j][2], hash |-> d[j][1]]>>]

CompareScripts == {"find_diff_tx", "compare_erigon_log", "compare_all_gas"}

InitCompare ==
    /\ script \in CompareScripts
    /\ pc = "ready"
    /\ \E e \in OrderedDicts(Indices, ErigonVals), r \in AscendingDicts(Indices, RpcVals) :
          /\ erigon_gas = IF script = "compare_all_gas" THEN ErigonReceipts(e) ELSE e
          /\ rpc_gas = IF script = "compare_all_gas" THEN RpcReceipts(r) ELSE r
    /\ IdleCompare /\ IdleParse /\ IdleCache /\ NoRequest /\ IdleMain

\* find_diff_tx.main, lines 115-133: no Erigon data ends the run, else the loop starts
FindDiffTxStart ==
    /\ script = "find_diff_tx" /\ pc = "ready"
    /\ IF erigon_gas = <<>>
       THEN /\ pc' = "done"
            /\ UNCHANGED <<todo, differences, cumulative_diff>>
       ELSE /\ pc' = "compare"
            /\ differences' = <<>>
            /\ cumulative_diff' = 0
            /\ todo' = UnionKeys(erigon_gas, rpc_gas)
    /\ UNCHANGED <<script, erigon_gas, rpc_gas, reported, compared>>
    /\ UNCHANGED <<parseVars, cacheVars, rpcVars, mainVars>>

\* compare_erigon_log.main, lines 53-70
CompareErigonLogStart ==
    /\ script = "compare_erigon_log" /\ pc = "ready"
    /\ IF erigon_gas = <<>> \/ rpc_gas = <<>>
       THEN /\ pc' = "done"
            /\ UNCHANGED <<todo, differences, cumulative_diff>>
       ELSE /\ pc' = "compare"
            /\ differences' = <<>>
            /\ cumulative_diff' = 0
            /\ todo' = Sorted(Keys(erigon_gas))
    /\ UNCHANGED <<script, erigon_gas, rpc_gas, reported, compared>>
    /\ UNCHANGED <<parseVars, cacheVars, rpcVars, mainVars>>

\* compare_all_gas.main, lines 127-130
CompareAllGasStart ==
    /\ script = "compare_all_gas" /\ pc = "ready"
    /\ pc' = "compare"
    /\ differences' = <<>>
    /\ cumulative_diff' = 0
    /\ todo' = UnionKeys(erigon_gas, rpc_gas)
    /\ UNCHANGED <<script, erigon_gas, rpc_gas, reported, compared>>
    /\ UNCHANGED <<parseVars, cacheVars, rpcVars, mainVars>>

\* one iteration of the loop of find_diff_tx (133-142) and compare_erigon_log (70-79)
CompareStep ==
    /\ script \in {"find_diff_tx", "compare_erigon_log"} /\ pc = "compare"
    /\ todo # <<>>
    /\ LET i == Head(todo)
           e_gas == DictGet(erigon_gas, i)
           r_gas == DictGet(rpc_gas, i)
       IN  IF e_gas # None /\ r_gas # None /\ Diff(e_gas[1], r_gas[1]) # 0
           THEN LET diff == Diff(e_gas[1], r_gas[1])
                    total == Accumulate(cumulative_diff, diff)
                IN  /\ cumulative_diff' = total
                    /\ differences' =
                          Append(differences, DiffRecord(i, e_gas[1], r_gas[1], diff, total))
           ELSE UNCHANGED <<differences, cumulative_diff>>
    /\ todo' = Tail(todo)
    /\ UNCHANGED <<script, pc, erigon_gas, rpc_gas, reported, compared>>
    /\ UNCHANGED <<parseVars, cacheVars, rpcVars, mainVars>>

\* one iteration of the loop of compare_all_gas (130-138): records carry no running total
CompareAllGasStep ==
    /\ script = "compare_all_gas" /\ pc = "compare"
    /\ todo # <<>>
    /\ LET i == Head(todo)
           e_gas == ReceiptGas(erigon_gas, i)
           r_gas == ReceiptGas(rpc_gas, i)
       IN  IF e_gas # None /\ r_gas # None /\ Diff(e_gas[1], r_gas[1]) # 0
           THEN LET diff == Diff(e_gas[1], r_gas[1])
                IN  /\ differences' = Append(differences, <<i, e_gas[1], r_gas[1], diff>>)
                    /\ cumulative_diff' = Accumulate(cumulative_diff, diff)
           ELSE UNCHANGED <<differences, cumulative_diff>>
    /\ todo' = Tail(todo)
    /\ UNCHANGED <<script, pc, erigon_gas, rpc_gas, reported, compared>>
    /\ UNCHANGED <<parseVars, cacheVars, rpcVars, mainVars>>

\* the summary after the loop: len(differences) and the total
CompareReport ==
    /\ script \in CompareScripts /\ pc = "compare"
    /\ todo = <<>>
    /\ reported' = <<[count |-> Len(differences), total |-> cumulative_diff]>>
    /\ pc' = "done"
    /\ UNCHANGED <<script, erigon_gas, rpc_gas, todo, differences, cumulative_diff, compared>>
    /\ UNCHANGED <<parseVars, cacheVars, rpcVars, mainVars>>

NextCompare ==
    \/ FindDiffTxStart
    \/ CompareErigonLogStart
    \/ CompareAllGasStart
    \/ CompareStep
    \/ CompareAllGasStep
    \/ CompareReport

SpecCompare == InitCompare /\ [][NextCompare]_vars

\* the three comparators are run on the same two mappings, one after the other
ComparatorOrder == <<"find_diff_tx", "compare_erigon_log", "compare_all_gas">>

InitComparators ==
    /\ script = ComparatorOrder[1]
    /\ pc = "ready"
    /\ erigon_gas \in AscendingDicts(Indices, ErigonVals)
    /\ rpc_gas \in AscendingDicts(Indices, RpcVals)
    /\ IdleCompare /\ IdleParse /\ IdleCache /\ NoRequest /\ IdleMain

\* the next script is given the same mappings; compare_all_gas holds them as
\* receipt records
RunNextComparator ==
    /\ pc = "done"
    /\ \E j \in 1 .. Len(ComparatorOrder) - 1 :
          /\ script = ComparatorOrder[j]
          /\ script' = ComparatorOrder[j + 1]
    /\ compared' = Append(compared, [script |-> script, differences |-> differences,
                                      reported |-> reported])
    /\ erigon_gas' = IF script' = "compare_all_gas" THEN ErigonReceipts(erigon_gas) ELSE erigon_gas
    /\ rpc_gas' = IF script' = "compare_all_gas" THEN RpcReceipts(rpc_gas) ELSE rpc_gas
    /\ todo' = <<>>
    /\ differences' = <<>>
    /\ cumulative_diff' = 0
    /\ reported' = None
    /\ pc' = "ready"
    /\ UNCHANGED <<parseVars, cacheVars, rpcVars, mainVars>>

NextComparators ==
    \/ NextCompare
    \/ RunNextComparator

SpecComparators == InitComparators /\ [][NextComparators]_vars

-----------------------------------------------------------------------------
(* Properties of the comparator *)

\* the gas value a mapping holds at index i (compare_all_gas keeps it in a record)
GasAt(d, i) == IF script = "compare_all_gas" THEN Item(d, i).gasUsed ELSE Item(d, i)

BothKeys == KeySet(erigon_gas) \cap KeySet(rpc_gas)

\* sum of the diff field of the records whose index is at most bound
RECURSIVE SumDiffsUpTo(_, _)
SumDiffsUpTo(recs, bound) ==
    IF recs = <<>> THEN 0
    ELSE (IF Head(recs)[1] <= bound THEN Head(recs)[4] ELSE 0) + SumDiffsUpTo(Tail(recs), bound)

\* sum of the diff field of all records
RECURSIVE SumDiffs(_)
SumDiffs(recs) == IF recs = <<>> THEN 0 ELSE Head(recs)[4] + SumDiffs(Tail(recs))

\* C1: every index in a difference record is a key of both mappings; an index
\* present in only one mapping is never reported, in all three comparators.
C1_OnlyIntersectionReported ==
    \A j \in 1 .. Len(differences) : differences[j][1] \in BothKeys

\* C1 witness: a comparator finished with a record although some index is in one mapping only
C1_Witness ==
    /\ pc = "done" /\ reported # None
    /\ differences # <<>>
    /\ KeySet(erigon_gas) \ KeySet(rpc_gas) # {}
    /\ KeySet(rpc_gas) \ KeySet(erigon_gas) # {}

\* C2: at every step of the loop the running total stored in a record is the sum
\* of the signed differences of the records with index at most that record's index.
C2_RunningTotalIsPrefixSum ==
    script \in {"find_diff_tx", "compare_erigon_log"} =>
        \A j \in 1 .. Len(differences) :
            differences[j][5] = SumDiffsUpTo(differences, differences[j][1])

\* C2 witness: in the middle of the loop, two records, the later total differing from its diff
C2_Witness ==
    /\ script \in {"find_diff_tx", "compare_erigon_log"}
    /\ pc = "compare" /\ todo # <<>>
    /\ Len(differences) >= 2
    /\ differences[2][5] # differences[2][4]

\* C3: when the comparator finishes, the reported total is the sum of the
\* per-index differences of all reported records.
C3_TotalIsSumOfDiffs ==
    (pc = "done" /\ reported # None) => reported[1].total = SumDiffs(differences)

\* C3 witness: compare_all_gas finished with three records and a non-zero total
C3_Witness ==
    /\ script = "compare_all_gas"
    /\ pc = "done" /\ reported # None
    /\ Len(differences) >= 3
    /\ reported[1].total # 0

\* the records the claim expects: one per index in both mappings with unequal values
ExpectedRecords ==
    {<<i, GasAt(erigon_gas, i), GasAt(rpc_gas, i), GasAt(erigon_gas, i) - GasAt(rpc_gas, i)>> :
        i \in {k \in BothKeys : GasAt(erigon_gas, k) # GasAt(rpc_gas, k)}}

\* C4: the reported records are exactly (i, A[i], B[i], A[i] - B[i]) for the i in
\* both mappings with A[i] # B[i], each once, and the reported count is their number.
C4_ExactlyTheDifferingIndices ==
    pc = "done" =>
        /\ {SubSeq(differences[j], 1, 4) : j \in 1 .. Len(differences)} = ExpectedRecords
        /\ Len(differences) = Cardinality(ExpectedRecords)
        /\ reported # None => reported[1].count = Cardinality(ExpectedRecords)

\* C4 witness: the spec's example, A = {0:100, 1:200}, B = {0:100, 1:250}
C4_Witness ==
    /\ script = "find_diff_tx" /\ pc = "done"
    /\ erigon_gas = <<(<<0, 100>>), (<<1, 200>>)>>
    /\ rpc_gas = <<(<<0, 100>>), (<<1, 250>>)>>
    /\ differences = <<(<<1, 200, 250, -50, -50>>)>>
    /\ reported = <<[count |-> 1, total |-> -50]>>

\* C10: records are emitted in strictly ascending index order, whatever the
\* order in which the indices were inserted into the mappings.
C10_StrictlyAscendingRecords ==
    \A j \in 1 .. Len(differences) - 1 : differences[j][1] < differences[j + 1][1]

\* C10 witness: keys inserted in descending order, three records emitted
C10_Witness ==
    /\ script = "compare_erigon_log"
    /\ Len(erigon_gas) >= 2 /\ erigon_gas[1][1] > erigon_gas[2][1]
    /\ Len(differences) >= 3

\* the (index, valueA, valueB, difference) part of the records
Records(diffs) == [j \in 1 .. Len(diffs) |-> SubSeq(diffs[j], 1, 4)]

\* the three comparators have run on the same two mappings
AllCompared == script = ComparatorOrder[3] /\ pc = "done" /\ Len(compared) = 2

\* the two mappings the three comparators were given, as index -> gas pairs
GivenA == {<<erigon_gas[j][1], erigon_gas[j][2].gasUsed>> : j \in 1 .. Len(erigon_gas)}
GivenB == {<<rpc_gas[j][1], rpc_gas[j][2].gasUsed>> : j \in 1 .. Len(rpc_gas)}

\* C14 as stated: for every pair of mappings the comparator over the sorted
\* keys of A and the two over the sorted union of the keys report the same
\* records (index, valueA, valueB, difference), the same count and the same total.
C14_AsStated ==
    AllCompared =>
        /\ Records(compared[1].differences) = Records(differences)
        /\ Records(compared[2].differences) = Records(differences)
        /\ compared[1].reported = reported
        /\ compared[2].reported = reported

\* C14 amended: for every pair of mappings the three comparators find the
\* same records; when neither mapping is empty they report the same count and
\* the same total.  (With an empty A find_diff_tx and compare_erigon_log, and
\* with an empty B compare_erigon_log, end before the loop and report no
\* count and no total, where the others report 0 and 0.)
C14_SameRecords ==
    AllCompared =>
        /\ Records(compared[1].differences) = Records(differences)
        /\ Records(compared[2].differences) = Records(differences)
        /\ (GivenA # {} /\ GivenB # {}) =>
              /\ reported # None
              /\ compared[1].reported = reported
              /\ compared[2].reported = reported

\* C14 witness: each mapping has an index the other lacks, the common index
\* differs in gas, and the three comparators reported the same record
C14_Witness ==
    /\ AllCompared
    /\ {p[1] : p \in GivenA} = {0, 1} /\ {p[1] : p \in GivenB} = {1, 2}
    /\ Len(differences) = 1
    /\ Records(compared[2].differences) = Records(differences)
    /\ compared[2].reported = reported /\ reported[1].count = 1

-----------------------------------------------------------------------------
(* Log parser: parse_erigon_log (compare_erigon_log) and parse_erigon_output   *)
(* (compare_all_gas).  A line is a list of characters; the two literals of the *)
(* pattern, which share no character with a digit or with each other, are one  *)
(* symbol each; "x" is any other character.                                    *)

TX == "txIndex="
GAS == "gasUsed="
Digits == {"0", "1", "2", "3", "4", "5", "6", "7", "8", "9"}

DigitVal(c) ==
    CASE c = "0" -> 0 [] c = "1" -> 1 [] c = "2" -> 2 [] c = "3" -> 3 [] c = "4" -> 4
      [] c = "5" -> 5 [] c = "6" -> 6 [] c = "7" -> 7 [] c = "8" -> 8 [] c = "9" -> 9

\* int(s) of a string of decimal digits
RECURSIVE IntOfDigits(_)
IntOfDigits(s) ==
    IF s = <<>> THEN 0
    ELSE 10 * IntOfDigits(SubSeq(s, 1, Len(s) - 1)) + DigitVal(s[Len(s)])

\* how many digits \d+ can take at position p
RECURSIVE DigitRun(_, _)
DigitRun(line, p) ==
    IF p <= Len(line) /\ line[p] \in Digits THEN 1 + DigitRun(line, p + 1) ELSE 0

\* the ways txIndex=(\d+).*gasUsed=(\d+) can match with txIndex= at p:
\* <<n, q>>, n digits taken by group 1 and gasUsed= found at q
MatchesAt(line, p) ==
    IF p <= Len(line) /\ line[p] = TX
    THEN {nq \in (1 .. DigitRun(line, p + 1)) \X (1 .. Len(line)) :
             /\ nq[2] >= p + 1 + nq[1]
             /\ line[nq[2]] = GAS
             /\ DigitRun(line, nq[2] + 1) >= 1}
    ELSE {}

\* the match the backtracking engine returns at p: \d+ takes the most it can,
\* then .*? (lazy) the least, .* (greedy) the most; group 2 takes every digit
MatchAt(line, p, greedy) ==
    LET M == MatchesAt(line, p)
        n == CHOOSE a \in {m[1] : m \in M} : \A m \in M : m[1] <= a
        Q == {m[2] : m \in {mm \in M : mm[1] = n}}
        q == IF greedy THEN CHOOSE a \in Q : \A b \in Q : b <= a
                       ELSE CHOOSE a \in Q : \A b \in Q : a <= b
        e == q + DigitRun(line, q + 1)
    IN  [idx |-> IntOfDigits(SubSeq(line, p + 1, p + n)),
         gas |-> IntOfDigits(SubSeq(line, q + 1, e)),
         end |-> e]

\* re.search(pattern, line) from position start: the leftmost match, or None
SearchFrom(line, start, greedy) ==
    LET P == {p \in start .. Len(line) : MatchesAt(line, p) # {}}
    IN  IF P = {} THEN None
        ELSE <<MatchAt(line, CHOOSE p \in P : \A o \in P : p <= o, greedy)>>

\* a plausible slip: keep the first value seen for an index
DictSetKeepFirst(d, k, v) == IF k \in KeySet(d) THEN d ELSE Append(d, <<k, v>>)

\* erigon_gas[idx] = gas
StoreGas(d, k, v) == DictSet(d, k, v)

\* lines of a log: blank, other text, half matches, matches, repeated tokens
LogLines ==
    { <<>>,
      <<"x">>,
      <<GAS, "1", TX, "0">>,
      <<TX, "x", GAS, "1">>,
      <<TX, "0", GAS, "x">>,
      <<TX, "0", GAS, "0">>,
      <<"x", TX, "0", "0", "x", GAS, "1", "0", "x">>,
      <<TX, "1", GAS, "1">>,
      <<TX, "0", GAS, "0", GAS, "1">>,
      <<TX, "0", GAS, "0", "x", TX, "1", GAS, "1">> }

LogTexts == UNION {[1 .. n -> LogLines] : n \in 0 .. MaxLines}

ParseScripts == {"compare_erigon_log", "compare_all_gas"}

InitParse ==
    /\ script \in ParseScripts
    /\ pc = "parse"
    /\ log_text \in LogTexts
    /\ lineno = 0
    /\ parsed = <<>>
    /\ erigon_gas = <<>>
    /\ rpc_gas = <<>>
    /\ IdleCompare /\ IdleCache /\ NoRequest /\ IdleMain

\* compare_erigon_log.parse_erigon_log, lines 21-26: one line of the file
ParseErigonLogLine ==
    /\ script = "compare_erigon_log" /\ pc = "parse"
    /\ lineno < Len(log_text)
    /\ LET match == SearchFrom(log_text[lineno + 1], 1, FALSE)
       IN  erigon_gas' = IF match # None
                         THEN StoreGas(erigon_gas, match[1].idx, match[1].gas)
                         ELSE erigon_gas
    /\ lineno' = lineno + 1
    /\ UNCHANGED <<script, pc, rpc_gas, log_text, parsed, cmpVars, cacheVars, rpcVars, mainVars>>

\* compare_all_gas.parse_erigon_output, lines 85-90: one line of the file
ParseErigonOutputLine ==
    /\ script = "compare_all_gas" /\ pc = "parse"
    /\ lineno < Len(log_text)
    /\ LET match == SearchFrom(log_text[lineno + 1], 1, TRUE)
       IN  erigon_gas' = IF match # None
                         THEN StoreGas(erigon_gas, match[1].idx, [gasUsed |-> match[1].gas])
                         ELSE erigon_gas
    /\ lineno' = lineno + 1
    /\ UNCHANGED <<script, pc, rpc_gas, log_text, parsed, cmpVars, cacheVars, rpcVars, mainVars>>

\* the end of the file: return erigon_gas
ParseReturn ==
    /\ script \in ParseScripts /\ pc = "parse"
    /\ lineno = Len(log_text)
    /\ pc' = "parsed"
    /\ UNCHANGED <<script, erigon_gas, rpc_gas, cmpVars, parseVars, cacheVars, rpcVars, mainVars>>

NextParse ==
    \/ ParseErigonLogLine
    \/ ParseErigonOutputLine
    \/ ParseReturn

SpecParse == InitParse /\ [][NextParse]_vars

\* re.finditer(pattern, text) within one line from position start, each
\* match stored as it is found: the next search begins where the match ended
\* (no part of the pattern matches a newline, so no match spans two lines)
RECURSIVE FindIterLine(_, _, _)
FindIterLine(d, line, start) ==
    LET match == SearchFrom(line, start, FALSE)
    IN  IF match = None THEN d
        ELSE FindIterLine(StoreGas(d, match[1].idx, match[1].gas), line, match[1].end + 1)

\* find_diff_tx.parse_erigon_log, lines 71-78, on the first n lines of the text
RECURSIVE FindIterText(_, _)
FindIterText(text, n) ==
    IF n = 0 THEN <<>>
    ELSE FindIterLine(FindIterText(text, n - 1), text[n], 1)

\* the three parsers are run on the same text, one after the other
ParserOrder == <<"compare_all_gas", "compare_erigon_log", "find_diff_tx">>

InitParsers ==
    /\ script = ParserOrder[1]
    /\ pc = "parse"
    /\ log_text \in LogTexts
    /\ lineno = 0
    /\ parsed = <<>>
    /\ erigon_gas = <<>>
    /\ rpc_gas = <<>>
    /\ IdleCompare /\ IdleCache /\ NoRequest /\ IdleMain

\* find_diff_tx.parse_erigon_log, lines 69-78: every match of the whole text
ParseErigonLogText ==
    /\ script = "find_diff_tx" /\ pc = "parse"
    /\ erigon_gas' = FindIterText(log_text, Len(log_text))
    /\ pc' = "parsed"
    /\ UNCHANGED <<script, rpc_gas, cmpVars, parseVars, cacheVars, rpcVars, mainVars>>

\* the next script is given the same text
RunNextParser ==
    /\ pc = "parsed"
    /\ \E j \in 1 .. Len(ParserOrder) - 1 :
          /\ script = ParserOrder[j]
          /\ script' = ParserOrder[j + 1]
    /\ parsed' = Append(parsed, <<script, erigon_gas>>)
    /\ erigon_gas' = <<>>
    /\ lineno' = 0
    /\ pc' = "parse"
    /\ UNCHANGED <<rpc_gas, log_text, cmpVars, cacheVars, rpcVars, mainVars>>

NextParsers ==
    \/ ParseErigonOutputLine
    \/ ParseErigonLogLine
    \/ ParseReturn
    \/ ParseErigonLogText
    \/ RunNextParser

SpecParsers == InitParsers /\ [][NextParsers]_vars

-----------------------------------------------------------------------------
(* Properties of the log parser *)

\* a line matches txIndex=<int> ... gasUsed=<int>
LineMatchesPattern(line) ==
    \E p, q \in 1 .. Len(line) :
        /\ line[p] = TX /\ p + 1 <= Len(line) /\ line[p + 1] \in Digits
        /\ q > p + 1
        /\ line[q] = GAS /\ q + 1 <= Len(line) /\ line[q + 1] \in Digits

\* what the script's pattern captures from a line
Captured(line) == SearchFrom(line, 1, script = "compare_all_gas")[1]

\* the positions of the matching lines that carry index k
LinesWithIndex(k) ==
    {j \in 1 .. Len(log_text) :
        LineMatchesPattern(log_text[j]) /\ Captured(log_text[j]).idx = k}

\* C5: the mapping has an entry only for indices captured from matching lines
\* (other lines contribute nothing), and for an index carried by several matching
\* lines it holds the gas value of the last of them in input order.
C5_LastMatchingLineWins ==
    pc = "parsed" =>
        /\ \A k \in KeySet(erigon_gas) : LinesWithIndex(k) # {}
        /\ \A j \in 1 .. Len(log_text) :
              LineMatchesPattern(log_text[j]) =>
                  LET k == Captured(log_text[j]).idx
                      last == CHOOSE a \in LinesWithIndex(k) : \A b \in LinesWithIndex(k) : b <= a
                  IN  /\ k \in KeySet(erigon_gas)
                      /\ GasAt(erigon_gas, k) = Captured(log_text[last]).gas

\* C5 witness: a non-matching line between two matching lines of the same index
\* with different gas values; the mapping holds the second value only
C5_Witness ==
    /\ pc = "parsed" /\ script = "compare_erigon_log"
    /\ Len(log_text) = 3
    /\ LineMatchesPattern(log_text[1])
    /\ ~LineMatchesPattern(log_text[2]) /\ log_text[2] # <<>>
    /\ LineMatchesPattern(log_text[3])
    /\ Captured(log_text[1]).idx = Captured(log_text[3]).idx
    /\ Captured(log_text[1]).gas # Captured(log_text[3]).gas
    /\ Len(erigon_gas) = 1
    /\ erigon_gas[1][2] = Captured(log_text[3]).gas

-----------------------------------------------------------------------------
(* RPC cache file: find_diff_tx writes rpc_gas_23800003.json with json.dump,    *)
(* compare_erigon_log reads it back.  The JSON text of an object is the list of *)
(* its members, <<text of the key string, text of the number>>.                 *)

DigitChar(n) ==
    CASE n = 0 -> "0" [] n = 1 -> "1" [] n = 2 -> "2" [] n = 3 -> "3" [] n = 4 -> "4"
      [] n = 5 -> "5" [] n = 6 -> "6" [] n = 7 -> "7" [] n = 8 -> "8" [] n = 9 -> "9"

\* the decimal text of a non-negative int: json writes int keys and values so
RECURSIVE StrOfInt(_)
StrOfInt(n) ==
    IF n < 10 THEN <<DigitChar(n)>> ELSE StrOfInt(n \div 10) \o <<DigitChar(n % 10)>>

\* json.dump(rpc_gas, f): int keys become strings, members keep the dict's order
JsonDump(d) == [j \in 1 .. Len(d) |-> <<StrOfInt(d[j][1]), StrOfInt(d[j][2])>>]

\* json.load(f): a dict from the key strings to the ints the numbers denote
JsonLoad(text) == [j \in 1 .. Len(text) |-> <<text[j][1], IntOfDigits(text[j][2])>>]

\* a plausible slip: the loaded values renumbered, {i: v for i, v in enumerate(...)}
IntKeysEnumerated(d) == [j \in 1 .. Len(d) |-> <<j - 1, d[j][2]>>]

\* {int(k): v for k, v in d.items()}
RECURSIVE IntKeys(_)
IntKeys(d) ==
    IF d = <<>> THEN <<>>
    ELSE LET last == d[Len(d)]
         IN  DictSet(IntKeys(SubSeq(d, 1, Len(d) - 1)), IntOfDigits(last[1]), last[2])

\* transaction indices of a fetched block: one and two digits, the last one 220
CacheIndices == {0, 9, 10, 220}

InitCache ==
    /\ script = "find_diff_tx"
    /\ pc = "fetched"
    /\ rpc_gas \in AscendingDicts(CacheIndices, RpcVals)
    /\ cache_file \in {None, <<JsonDump(<<(<<0, 100>>)>>)>>}
    /\ saved_rpc_gas = None
    /\ erigon_gas = <<>>
    /\ IdleCompare /\ IdleParse /\ NoRequest /\ IdleMain

\* find_diff_tx.main, lines 92-94: the fetched mapping is saved
SaveCache ==
    /\ script = "find_diff_tx" /\ pc = "fetched"
    /\ cache_file' = <<JsonDump(rpc_gas)>>
    /\ saved_rpc_gas' = <<rpc_gas>>
    /\ console' = Append(console, [text |-> "Saved RPC data to rpc_gas_23800003.json", args |-> <<>>])
    /\ pc' = "saved"
    /\ UNCHANGED <<script, erigon_gas, rpc_gas, cmpVars, parseVars, rpcVars>>
    /\ UNCHANGED <<tx_hashes, tx_i, results, tx79, delegation_addresses, found_refs, exc, failed, requests>>

\* a run of compare_erigon_log begins (before or after find_diff_tx saved)
RunCompareErigonLog ==
    /\ script = "find_diff_tx" /\ pc \in {"fetched", "saved"}
    /\ script' = "compare_erigon_log"
    /\ pc' = "load"
    /\ rpc_gas' = <<>>
    /\ UNCHANGED <<erigon_gas, cmpVars, parseVars, cacheVars, rpcVars, mainVars>>

\* compare_erigon_log.main, lines 44-51: load the cache when the file exists
LoadCache ==
    /\ script = "compare_erigon_log" /\ pc = "load"
    /\ rpc_gas' = IF cache_file # None THEN IntKeys(JsonLoad(cache_file[1])) ELSE <<>>
    /\ pc' = "loaded"
    /\ UNCHANGED <<script, erigon_gas, cmpVars, parseVars, cacheVars, rpcVars, mainVars>>

NextCache ==
    \/ SaveCache
    \/ RunCompareErigonLog
    \/ LoadCache

SpecCache == InitCache /\ [][NextCache]_vars

\* the index -> gasUsed pairs of the mapping a script parsed; compare_all_gas
\* holds a record for each index
GasPairs(name, d) ==
    {<<d[j][1], IF name = "compare_all_gas" THEN d[j][2].gasUsed ELSE d[j][2]>> :
        j \in 1 .. Len(d)}

\* C13 as stated: on every text the three parsers give the same
\* index -> gasUsed mapping, also when a line has more than one txIndex= or
\* more than one gasUsed= token.
C13_AsStated ==
    (script = "find_diff_tx" /\ pc = "parsed" /\ Len(parsed) = 2) =>
        /\ GasPairs(parsed[1][1], parsed[1][2]) = GasPairs(parsed[2][1], parsed[2][2])
        /\ GasPairs(parsed[2][1], parsed[2][2]) = GasPairs(script, erigon_gas)

-----------------------------------------------------------------------------
(* Properties of the cache file *)

\* C9: the mapping compare_erigon_log loads from the cache file equals, with int
\* keys and int values, the mapping find_diff_tx held when it wrote the file.
C9_CacheRoundTrip ==
    (pc = "loaded" /\ saved_rpc_gas # None) => rpc_gas = saved_rpc_gas[1]

\* C9 witness: a mapping with missing indices and a multi-digit key was written and loaded
C9_Witness ==
    /\ pc = "loaded" /\ saved_rpc_gas # None
    /\ KeySet(rpc_gas) = {9, 220}

\* C9 witness of the empty mapping: written and loaded
C9_WitnessEmpty ==
    /\ pc = "loaded" /\ saved_rpc_gas = <<(<<>>)>> /\ rpc_gas = <<>>

-----------------------------------------------------------------------------
(* RPC client: rpc_call (check_delegation), get_block (check_type4),           *)
(* get_block_tx_hashes and get_receipt_from_rpc (compare_gas_block).           *)
(* Decoded JSON values are tagged records; a str is the list of its           *)
(* characters, a dict the list of its <<key, value>> members.                  *)

PyNone == [t |-> "None"]
PyBool(b) == [t |-> "bool", b |-> b]
PyInt(n) == [t |-> "int", n |-> n]
PyStr(chars) == [t |-> "str", s |-> chars]
PyList(items) == [t |-> "list", items |-> items]
PyDict(members) == [t |-> "dict", members |-> members]

\* bool(x)
Truthy(x) ==
    CASE x.t = "None" -> FALSE
      [] x.t = "bool" -> x.b
      [] x.t = "int" -> x.n # 0
      [] x.t = "str" -> x.s # <<>>
      [] x.t = "list" -> x.items # <<>>
      [] x.t = "dict" -> x.members # <<>>

\* how an expression ends: with a value, or raising
Value(v) == [exc |-> "none", val |-> v]
Raise(e) == [exc |-> e, val |-> PyNone]

\* what the endpoint can answer: no answer, a body that is not JSON, a JSON body
HttpError(e) == [kind |-> "error", exc |-> e]
BadBody == [kind |-> "garbage"]
JsonBody(v) == [kind |-> "json", value |-> v]

\* with urlopen(req, timeout=..) as response: data = json.loads(response.read().decode())
UrlopenAndLoad(resp) ==
    CASE resp.kind = "error" -> Raise(resp.exc)
      [] resp.kind = "garbage" -> Raise("JSONDecodeError")
      [] resp.kind = "json" -> Value(resp.value)

\* x.get(key, default): only a dict has the method
PyGet(x, key, default) ==
    IF x.t = "dict"
    THEN Value(IF key \in KeySet(x.members) THEN Item(x.members, key) ELSE default)
    ELSE Raise("AttributeError")

\* x[key] with a str key
PySubscript(x, key) ==
    IF x.t = "dict"
    THEN (IF key \in KeySet(x.members) THEN Value(Item(x.members, key)) ELSE Raise("KeyError"))
    ELSE Raise("TypeError")

\* x[i] with an int index, 0-based
PyIndex(x, i) ==
    CASE x.t = "list" -> IF i < Len(x.items) THEN Value(x.items[i + 1]) ELSE Raise("IndexError")
      [] x.t = "str" -> IF i < Len(x.s) THEN Value(PyStr(<<x.s[i + 1]>>)) ELSE Raise("IndexError")
      [] x.t = "dict" -> Raise("KeyError")
      [] OTHER -> Raise("TypeError")

\* the exceptions `except Exception` catches; KeyboardInterrupt is not one
ExceptionClasses ==
    {"URLError", "HTTPError", "timeout", "JSONDecodeError", "AttributeError", "KeyError",
     "TypeError", "IndexError", "ValueError"}

\* what a client function hands to its caller
Returns(v, printed) == [exc |-> "none", val |-> v, logged |-> printed]
Propagates(e) == [exc |-> e, val |-> PyNone, logged |-> FALSE]

\* a plausible slip: only the network error is caught
ExceptURLError(o, after) ==
    IF o.exc \in {"URLError", "HTTPError"} THEN Returns(after, TRUE) ELSE Propagates(o.exc)

\* except Exception as e: print(f"Error..: {e}"), then the statement after the try
ExceptException(o, after) ==
    IF o.exc \in ExceptionClasses THEN Returns(after, TRUE) ELSE Propagates(o.exc)

\* except Exception as e: pass, then the statement after the try
ExceptPass(o, after) ==
    IF o.exc \in ExceptionClasses THEN Returns(after, FALSE) ELSE Propagates(o.exc)

\* data.get("result") inside the try
GetResult(resp) ==
    LET data == UrlopenAndLoad(resp)
    IN  IF data.exc # "none" THEN data ELSE PyGet(data.val, "result", PyNone)

\* check_delegation.rpc_call, lines 31-37
rpc_call(resp) ==
    LET result == GetResult(resp)
    IN  IF result.exc = "none" THEN Returns(result.val, FALSE)
        ELSE ExceptException(result, PyNone)

\* check_type4.get_block, lines 30-37
get_block(resp) ==
    LET result == GetResult(resp)
    IN  IF result.exc # "none" THEN ExceptException(result, PyNone)
        ELSE IF Truthy(result.val) THEN Returns(result.val, FALSE)
        ELSE Returns(PyNone, FALSE)

\* compare_gas_block.get_block_tx_hashes, lines 36-43
get_block_tx_hashes(resp) ==
    LET result == GetResult(resp)
    IN  IF result.exc # "none" THEN ExceptException(result, PyList(<<>>))
        ELSE IF Truthy(result.val)
        THEN LET txs == PySubscript(result.val, "transactions")
             IN  IF txs.exc = "none" THEN Returns(txs.val, FALSE)
                 ELSE ExceptException(txs, PyList(<<>>))
        ELSE Returns(PyList(<<>>), FALSE)

\* "0x64" and "0xfa": gas 100 and 250 as the node writes them
Hex100 == PyStr(<<"0", "x", "6", "4">>)
Hex250 == PyStr(<<"0", "x", "f", "a">>)
TxHash(i) == PyStr(<<"0", "x", "h">> \o StrOfInt(i))

\* the result member of an answer: null, the falsy and truthy scalars and
\* containers, blocks with and without transactions, a receipt
ResultValues ==
    { PyNone, PyBool(FALSE), PyBool(TRUE), PyInt(0), PyInt(1), PyStr(<<>>), Hex100,
      PyList(<<>>), PyList(<<TxHash(0)>>), PyDict(<<>>),
      PyDict(<<(<<"transactions", PyList(<<>>)>>)>>),
      PyDict(<<(<<"transactions", PyList(<<TxHash(0), TxHash(1)>>)>>)>>),
      PyDict(<<(<<"transactions", PyNone>>)>>),
      PyDict(<<(<<"gasUsed", Hex100>>), (<<"cumulativeGasUsed", Hex250>>)>>) }

\* the answers of the endpoint
Responses ==
    {HttpError("URLError"), HttpError("HTTPError"), HttpError("timeout"), BadBody}
    \cup {JsonBody(PyDict(<<(<<"id", PyInt(1)>>), (<<"result", r>>)>>)) : r \in ResultValues}
    \cup {JsonBody(PyDict(<<(<<"id", PyInt(1)>>),
                            (<<"error", PyDict(<<(<<"code", PyInt(-32000)>>)>>)>>)>>)),
          JsonBody(PyDict(<<>>)), JsonBody(PyList(<<>>)), JsonBody(PyStr(<<"o", "k">>)),
          JsonBody(PyInt(5)), JsonBody(PyNone)}

RpcScripts == {"check_delegation", "check_type4", "compare_gas_block"}

Methods == {"eth_getBlockByNumber", "eth_getTransactionReceipt", "eth_getTransactionByHash"}

InitRpc ==
    /\ script \in RpcScripts
    /\ pc = "call"
    /\ method \in IF script = "check_delegation" THEN Methods ELSE {"eth_getBlockByNumber"}
    /\ response = None
    /\ outcome = None
    /\ erigon_gas = <<>>
    /\ rpc_gas = <<>>
    /\ IdleCompare /\ IdleParse /\ IdleCache /\ IdleMain

\* a call of check_delegation.rpc_call(method, params)
CallRpcCall ==
    /\ script = "check_delegation" /\ pc = "call"
    /\ \E resp \in Responses :
          /\ response' = <<resp>>
          /\ outcome' = <<rpc_call(resp)>>
    /\ pc' = "returned"
    /\ UNCHANGED <<script, method, erigon_gas, rpc_gas, cmpVars, parseVars, cacheVars, mainVars>>

\* a call of check_type4.get_block(block_num)
CallGetBlock ==
    /\ script = "check_type4" /\ pc = "call"
    /\ \E resp \in Responses :
          /\ response' = <<resp>>
          /\ outcome' = <<get_block(resp)>>
    /\ pc' = "returned"
    /\ UNCHANGED <<script, method, erigon_gas, rpc_gas, cmpVars, parseVars, cacheVars, mainVars>>

\* a call of compare_gas_block.get_block_tx_hashes(block_num)
CallGetBlockTxHashes ==
    /\ script = "compare_gas_block" /\ pc = "call"
    /\ \E resp \in Responses :
          /\ response' = <<resp>>
          /\ outcome' = <<get_block_tx_hashes(resp)>>
    /\ pc' = "returned"
    /\ UNCHANGED <<script, method, erigon_gas, rpc_gas, cmpVars, parseVars, cacheVars, mainVars>>

NextRpc ==
    \/ CallRpcCall
    \/ CallGetBlock
    \/ CallGetBlockTxHashes

SpecRpc == InitRpc /\ [][NextRpc]_vars

-----------------------------------------------------------------------------
(* Properties of the RPC client *)

\* the answer carries a result member
CarriesResult(resp) ==
    resp.kind = "json" /\ resp.value.t = "dict" /\ "result" \in KeySet(resp.value.members)

\* the result member of an answer that carries one
ResultOf(resp) == Item(resp.value.members, "result")

\* the absence value: None, or an empty list for the transaction-hash helper
Sentinel == IF script = "compare_gas_block" THEN PyList(<<>>) ELSE PyNone

\* C6 as stated: the decoded result is returned when the answer carries one, the
\* absence value when the HTTP call fails, the body is not JSON or there is no
\* result member, and no exception reaches the caller.
C6_AsStated ==
    pc = "returned" =>
        /\ outcome[1].exc = "none"
        /\ outcome[1].val = IF CarriesResult(response[1])
                            THEN ResultOf(response[1])
                            ELSE Sentinel

\* what each function returns for an answer that carries a result member
ResultReturned(result) ==
    CASE script = "check_delegation" -> result
      [] script = "check_type4" -> IF Truthy(result) THEN result ELSE PyNone
      [] script = "compare_gas_block" ->
            IF Truthy(result) /\ result.t = "dict" /\ "transactions" \in KeySet(result.members)
            THEN Item(result.members, "transactions")
            ELSE PyList(<<>>)

\* C6 amended: rpc_call returns the decoded result whenever the answer carries
\* one; get_block returns it only when it is truthy and get_block_tx_hashes
\* returns the transactions member of a truthy result; for every other answer
\* the absence value is returned, and no exception reaches the caller.
C6_ResultOrSentinel ==
    pc = "returned" =>
        /\ outcome[1].exc = "none"
        /\ outcome[1].val = IF CarriesResult(response[1])
                            THEN ResultReturned(ResultOf(response[1]))
                            ELSE Sentinel

\* C6 witness: the hash helper got a result without transactions: the KeyError
\* was caught and logged and the empty list returned
C6_Witness ==
    /\ pc = "returned" /\ script = "compare_gas_block"
    /\ CarriesResult(response[1])
    /\ ResultOf(response[1]).t = "dict" /\ Truthy(ResultOf(response[1]))
    /\ "transactions" \notin KeySet(ResultOf(response[1]).members)
    /\ outcome[1] = Returns(PyList(<<>>), TRUE)

-----------------------------------------------------------------------------
(* Main flows: the block listing, the receipt loop and what follows them.     *)
(* find_diff_tx is followed up to the saved cache file; compare_all_gas is    *)
(* followed in its mode without arguments (fetch, print, save).               *)

\* the index of the last transaction of block 23800003, hard-coded in the main flows
LastTx == 220

\* the index of the type-4 transaction of block 23800001
TX79 == 79

\* the number of transactions of a small block
MaxTxs == 2

\* a printed line: its fixed text and the numbers formatted into it
Msg(text, args) == [text |-> text, args |-> args]

\* the failed requests
BlockRequest == <<"block", 0>>
ReceiptRequest(i) == <<"receipt", i>>

HexDigits == {"0", "1", "2", "3", "4", "5", "6", "7", "8", "9", "a", "b", "c", "d", "e", "f"}

HexDigitVal(c) ==
    CASE c = "a" -> 10 [] c = "b" -> 11 [] c = "c" -> 12 [] c = "d" -> 13
      [] c = "e" -> 14 [] c = "f" -> 15 [] OTHER -> DigitVal(c)

RECURSIVE HexValue(_)
HexValue(s) ==
    IF s = <<>> THEN 0
    ELSE 16 * HexValue(SubSeq(s, 1, Len(s) - 1)) + HexDigitVal(s[Len(s)])

\* int(x, 16): a str of hex digits with an optional 0x prefix
PyIntBase16(x) ==
    IF x.t # "str" THEN Raise("TypeError")
    ELSE LET body == IF Len(x.s) >= 2 /\ x.s[1] = "0" /\ x.s[2] = "x"
                     THEN SubSeq(x.s, 3, Len(x.s))
                     ELSE x.s
         IN  IF body = <<>> \/ \E j \in 1 .. Len(body) : body[j] \notin HexDigits
             THEN Raise("ValueError")
             ELSE Value(PyInt(HexValue(body)))

\* len(x)
PyLen(x) ==
    CASE x.t = "list" -> Value(PyInt(Len(x.items)))
      [] x.t = "str" -> Value(PyInt(Len(x.s)))
      [] x.t = "dict" -> Value(PyInt(Len(x.members)))
      [] OTHER -> Raise("TypeError")

\* int(result[key], 16)
ReceiptField(result, key) ==
    LET field == PySubscript(result, key)
    IN  IF field.exc # "none" THEN field ELSE PyIntBase16(field.val)

\* a block of n transactions as eth_getBlockByNumber(.., False) lists it
BlockOf(n) ==
    PyDict(<<(<<"number", PyStr(<<"0", "x", "1">>)>>),
             (<<"transactions", PyList([j \in 1 .. n |-> TxHash(j - 1)])>>)>>)

\* a receipt as eth_getTransactionReceipt gives it
ReceiptOf(gas) ==
    PyDict(<<(<<"gasUsed", gas>>), (<<"cumulativeGasUsed", gas>>),
             (<<"type", PyStr(<<"0", "x", "2">>)>>)>>)

Answer(result) == JsonBody(PyDict(<<(<<"id", PyInt(1)>>), (<<"result", result>>)>>))
ErrorAnswer ==
    JsonBody(PyDict(<<(<<"id", PyInt(1)>>),
                      (<<"error", PyDict(<<(<<"code", PyInt(-32000)>>)>>)>>)>>))

\* the sizes of the listed block: small ones, and the 221 transactions of 23800003
BlockSizes == (0 .. MaxTxs) \cup {LastTx + 1}

\* the answers to the block-listing request
BlockResponses ==
    {HttpError("URLError"), BadBody, ErrorAnswer, Answer(PyNone),
     Answer(PyDict(<<(<<"number", PyStr(<<"0", "x", "1">>)>>)>>)),
     Answer(PyDict(<<(<<"transactions", PyNone>>)>>))}
    \cup {Answer(BlockOf(n)) : n \in BlockSizes}

\* the indices whose receipt request can go wrong; every other receipt arrives
FlakyIndices == (0 .. MaxTxs - 1) \cup {LastTx}

\* the answers to a receipt request
ReceiptResponses(i) ==
    IF i \in FlakyIndices
    THEN {HttpError("timeout"), BadBody, ErrorAnswer, Answer(PyNone),
          Answer(PyDict(<<(<<"gasUsed", Hex250>>)>>)),
          Answer(PyDict(<<(<<"gasUsed", PyNone>>), (<<"cumulativeGasUsed", Hex250>>)>>)),
          Answer(ReceiptOf(Hex250))}
    ELSE {Answer(ReceiptOf(Hex100))}

\* x is a str int(x, 16) reads: hex digits, with or without the 0x prefix
IsHexStr(x) ==
    /\ x.t = "str"
    /\ \E k \in {0, 2} :
          /\ Len(x.s) > k
          /\ k = 2 => (x.s[1] = "0" /\ x.s[2] = "x")
          /\ \A j \in k + 1 .. Len(x.s) : x.s[j] \in HexDigits

\* what the endpoint gave to a receipt request of which the fields `keys` are
\* read: no result (failure, no result member, empty result), a result
\* without these fields as hex strings, or a receipt
AnswerKind(resp, keys) ==
    IF ~(resp.kind = "json" /\ resp.value.t = "dict"
         /\ "result" \in KeySet(resp.value.members)
         /\ Truthy(Item(resp.value.members, "result")))
    THEN "none"
    ELSE LET result == Item(resp.value.members, "result")
         IN  IF /\ result.t = "dict"
                /\ \A key \in keys : /\ key \in KeySet(result.members)
                                     /\ IsHexStr(Item(result.members, key))
             THEN "receipt"
             ELSE "malformed"

\* the record of a receipt request in the history
Request(i, resp, keys) == [index |-> i, answer |-> AnswerKind(resp, keys)]

\* a plausible slip: every second transaction is fetched
NextIndexSkip(i) == i + 2

\* for i, tx_hash in enumerate(tx_hashes): the index of the next round
NextIndex(i) == i + 1

\* data["result"]["transactions"] of the block listing, lines 33-35 / 39-41
BlockListing(resp) ==
    LET data == UrlopenAndLoad(resp)
        result == PySubscript(data.val, "result")
    IN  IF data.exc # "none" THEN data
        ELSE IF result.exc # "none" THEN result
        ELSE PySubscript(result.val, "transactions")

MainScripts == {"find_diff_tx", "compare_all_gas", "compare_gas_block", "check_delegation"}

InitMain ==
    /\ script \in MainScripts
    /\ pc = "start"
    /\ erigon_gas = <<>>
    /\ rpc_gas = <<>>
    /\ IdleCompare /\ IdleParse /\ IdleCache /\ NoRequest /\ IdleMain

\* the block listing of get_block_receipts (find_diff_tx, lines 20-39) and of
\* get_all_receipts (compare_all_gas, lines 26-45): made outside any try
ListBlock(name) ==
    /\ script = name /\ pc = "start"
    /\ method' = "eth_getBlockByNumber"
    /\ \E resp \in BlockResponses :
          LET listing == BlockListing(resp)
              n == PyLen(listing.val)
          IN  /\ response' = <<resp>>
              /\ IF listing.exc # "none"
                 THEN /\ pc' = "crashed" /\ exc' = listing.exc
                      /\ failed' = failed \cup {BlockRequest}
                      /\ UNCHANGED <<tx_hashes, console>>
                 ELSE IF n.exc # "none"
                 THEN /\ pc' = "crashed" /\ exc' = n.exc
                      /\ failed' = failed \cup {BlockRequest}
                      /\ UNCHANGED <<tx_hashes, console>>
                 ELSE /\ pc' = "fetch"
                      /\ tx_hashes' = <<listing.val>>
                      /\ console' = Append(console, Msg("Fetching receipts from RPC", <<n.val.n>>))
                      /\ UNCHANGED <<exc, failed>>
    /\ UNCHANGED <<script, erigon_gas, rpc_gas, outcome, cmpVars, parseVars, cacheVars>>
    /\ UNCHANGED <<tx_i, results, tx79, delegation_addresses, found_refs, requests>>

GetBlockReceipts == ListBlock("find_diff_tx")
GetAllReceipts == ListBlock("compare_all_gas")

\* find_diff_tx, lines 55-59: the gas of the receipt, None when there is no result
GasUsedOf(resp) ==
    LET result == GetResult(resp)
    IN  IF result.exc # "none" THEN result
        ELSE IF ~Truthy(result.val) THEN Value(PyNone)
        ELSE ReceiptField(result.val, "gasUsed")

\* compare_all_gas, lines 61-69: the record of the receipt, None when there is no result
RecordOf(resp, tx_hash) ==
    LET result == GetResult(resp)
        gasUsed == ReceiptField(result.val, "gasUsed")
        cumulativeGas == ReceiptField(result.val, "cumulativeGasUsed")
    IN  IF result.exc # "none" THEN result
        ELSE IF ~Truthy(result.val) THEN Value(PyNone)
        ELSE IF gasUsed.exc # "none" THEN gasUsed
        ELSE IF cumulativeGas.exc # "none" THEN cumulativeGas
        ELSE Value([t |-> "record", gasUsed |-> gasUsed.val.n,
                    cumulativeGas |-> cumulativeGas.val.n, hash |-> tx_hash.s])

\* one round of the receipt loop of get_block_receipts, lines 40-65: a bare
\* except swallows whatever the request raises
FetchGasUsed ==
    /\ script = "find_diff_tx" /\ pc = "fetch"
    /\ tx_i < Len(tx_hashes[1].items)
    /\ method' = "eth_getTransactionReceipt"
    /\ \E resp \in ReceiptResponses(tx_i) :
          LET gas == GasUsedOf(resp)
              stored == gas.exc = "none" /\ gas.val.t = "int"
          IN  /\ response' = <<resp>>
              /\ rpc_gas' = IF stored THEN DictSet(rpc_gas, tx_i, gas.val.n) ELSE rpc_gas
              /\ failed' = IF stored THEN failed ELSE failed \cup {ReceiptRequest(tx_i)}
              /\ requests' = Append(requests, Request(tx_i, resp, {"gasUsed"}))
    /\ tx_i' = NextIndex(tx_i)
    /\ UNCHANGED <<script, pc, erigon_gas, outcome, cmpVars, parseVars, cacheVars>>
    /\ UNCHANGED <<tx_hashes, results, tx79, delegation_addresses, found_refs, console, exc>>

\* get_block_receipts returns, find_diff_tx.main line 89
GetBlockReceiptsReturn ==
    /\ script = "find_diff_tx" /\ pc = "fetch"
    /\ tx_i = Len(tx_hashes[1].items)
    /\ console' = Append(console, Msg("Fetched receipts from RPC", <<Len(rpc_gas)>>))
    /\ pc' = "fetched"
    /\ UNCHANGED <<script, erigon_gas, rpc_gas, cmpVars, parseVars, cacheVars, rpcVars>>
    /\ UNCHANGED <<tx_hashes, tx_i, results, tx79, delegation_addresses, found_refs, exc, failed, requests>>

\* one round of the receipt loop of get_all_receipts, lines 46-75: an
\* Exception is printed, anything else propagates
FetchReceipt ==
    /\ script = "compare_all_gas" /\ pc = "fetch"
    /\ tx_i < Len(tx_hashes[1].items)
    /\ method' = "eth_getTransactionReceipt"
    /\ \E resp \in ReceiptResponses(tx_i) :
          LET record == RecordOf(resp, tx_hashes[1].items[tx_i + 1])
              stored == record.exc = "none" /\ record.val.t = "record"
              caught == ExceptException(record, PyNone)
          IN  /\ response' = <<resp>>
              /\ rpc_gas' = IF stored THEN DictSet(rpc_gas, tx_i, record.val) ELSE rpc_gas
              /\ failed' = IF stored THEN failed ELSE failed \cup {ReceiptRequest(tx_i)}
              /\ requests' = Append(requests,
                                    Request(tx_i, resp, {"gasUsed", "cumulativeGasUsed"}))
              /\ IF record.exc = "none"
                 THEN UNCHANGED <<pc, exc, console>>
                 ELSE IF caught.exc = "none"
                 THEN /\ console' = Append(console, Msg("Error fetching TX", <<tx_i>>))
                      /\ UNCHANGED <<pc, exc>>
                 ELSE /\ pc' = "crashed" /\ exc' = caught.exc
                      /\ UNCHANGED console
    /\ tx_i' = NextIndex(tx_i)
    /\ UNCHANGED <<script, erigon_gas, outcome, cmpVars, parseVars, cacheVars>>
    /\ UNCHANGED <<tx_hashes, results, tx79, delegation_addresses, found_refs>>

\* the lines printed for the fetched receipts, compare_all_gas lines 112-114
GasLines(receipts, n) ==
    LET present == SelectSeq([j \in 1 .. n |-> j - 1], LAMBDA i : i \in KeySet(receipts))
    IN  [j \in 1 .. Len(present) |->
            Msg("txIndex= gasUsed=", <<present[j], Item(receipts, present[j]).gasUsed>>)]

\* compare_all_gas.main without arguments, lines 100-115
FetchOnlyReport ==
    /\ script = "compare_all_gas" /\ pc = "fetch"
    /\ tx_i = Len(tx_hashes[1].items)
    /\ IF LastTx \in KeySet(rpc_gas)
       THEN /\ console' = console
                \o <<Msg("Fetched receipts", <<Len(rpc_gas)>>),
                     Msg("Total gas", <<Item(rpc_gas, LastTx).cumulativeGas>>),
                     Msg("Saved to rpc_receipts.json", <<>>),
                     Msg("--- RPC Gas Values ---", <<>>)>>
                \o GasLines(rpc_gas, Len(rpc_gas))
            /\ pc' = "done"
            /\ UNCHANGED exc
       ELSE /\ console' = Append(console, Msg("Fetched receipts", <<Len(rpc_gas)>>))
            /\ pc' = "crashed" /\ exc' = "KeyError"
    /\ UNCHANGED <<script, erigon_gas, rpc_gas, cmpVars, parseVars, cacheVars, rpcVars>>
    /\ UNCHANGED <<tx_hashes, tx_i, results, tx79, delegation_addresses, found_refs, failed, requests>>

\* the first of the evaluations, in the order the code makes them, that
\* raised; the last one when none did
FirstRaised(steps) ==
    IF \E j \in 1 .. Len(steps) : steps[j].exc # "none"
    THEN steps[CHOOSE j \in 1 .. Len(steps) :
                 /\ steps[j].exc # "none"
                 /\ \A k \in 1 .. j - 1 : steps[k].exc = "none"]
    ELSE steps[Len(steps)]

\* compare_gas_block.get_receipt_from_rpc, lines 60-72
get_receipt_from_rpc(resp) ==
    LET result == GetResult(resp)
        gasUsed == ReceiptField(result.val, "gasUsed")
        cumulativeGasUsed == ReceiptField(result.val, "cumulativeGasUsed")
        type == PyGet(result.val, "type", PyStr(<<"0", "x", "0">>))
        typeInt == PyIntBase16(type.val)
        fields == FirstRaised(<<gasUsed, cumulativeGasUsed, type, typeInt>>)
    IN  IF result.exc # "none" THEN ExceptPass(result, PyNone)
        ELSE IF ~Truthy(result.val) THEN Returns(PyNone, FALSE)
        ELSE IF fields.exc # "none" THEN ExceptPass(fields, PyNone)
        ELSE Returns([t |-> "record", gasUsed |-> gasUsed.val.n,
                      cumulativeGasUsed |-> cumulativeGasUsed.val.n,
                      type |-> typeInt.val.n], FALSE)

\* compare_gas_block, line 17: gasUsed of the header of block 23800003
EXPECTED_TOTAL_GAS == 26758527

\* compare_gas_block.main, line 93
check_indices == <<0, 1, 2, 50, 100, 150, 200, 210, 215, 218, 219, 220>>

\* [i for i in check_indices if i < n], line 94
Below(n) ==
    LET below(i) == i < n
    IN  SelectSeq(check_indices, below)

\* the block listing gave the list of transactions
Listed(resp) == BlockListing(resp).exc = "none" /\ BlockListing(resp).val.t = "list"

\* compare_gas_block.main, lines 82-97: the hashes of the block
GetTxHashes ==
    /\ script = "compare_gas_block" /\ pc = "start"
    /\ method' = "eth_getBlockByNumber"
    /\ \E resp \in BlockResponses :
          LET hashes == get_block_tx_hashes(resp)
              n == PyLen(hashes.val)
              printed == IF hashes.logged
                         THEN Append(console, Msg("Error getting block", <<>>))
                         ELSE console
          IN  /\ response' = <<resp>>
              /\ outcome' = <<hashes>>
              /\ failed' = IF Listed(resp) THEN failed ELSE failed \cup {BlockRequest}
              /\ IF hashes.exc # "none"
                 THEN /\ pc' = "crashed" /\ exc' = hashes.exc
                      /\ console' = printed
                      /\ UNCHANGED <<tx_hashes, todo>>
                 ELSE IF n.exc # "none"
                 THEN /\ pc' = "crashed" /\ exc' = n.exc
                      /\ console' = printed
                      /\ tx_hashes' = <<hashes.val>>
                      /\ UNCHANGED todo
                 ELSE IF ~Truthy(hashes.val)
                 THEN /\ pc' = "done"
                      /\ console' = printed \o <<Msg("Total transactions", <<n.val.n>>),
                                                 Msg("Failed to get transactions", <<>>)>>
                      /\ tx_hashes' = <<hashes.val>>
                      /\ UNCHANGED <<exc, todo>>
                 ELSE /\ pc' = "check"
                      /\ console' = Append(printed, Msg("Total transactions", <<n.val.n>>))
                      /\ tx_hashes' = <<hashes.val>>
                      /\ todo' = Below(n.val.n)
                      /\ UNCHANGED exc
    /\ UNCHANGED <<script, erigon_gas, rpc_gas, differences, cumulative_diff, reported, compared>>
    /\ UNCHANGED <<parseVars, cacheVars>>
    /\ UNCHANGED <<tx_i, results, tx79, delegation_addresses, found_refs, requests>>

\* one round of the loop over check_indices, compare_gas_block lines 99-110
CheckIndex ==
    /\ script = "compare_gas_block" /\ pc = "check"
    /\ todo # <<>>
    /\ method' = "eth_getTransactionReceipt"
    /\ \E resp \in ReceiptResponses(Head(todo)) :
          LET idx == Head(todo)
              tx_hash == PyIndex(tx_hashes[1], idx)
              receipt == get_receipt_from_rpc(resp)
          IN  /\ response' = <<resp>>
              /\ IF tx_hash.exc # "none"
                 THEN /\ pc' = "crashed" /\ exc' = tx_hash.exc
                      /\ UNCHANGED <<outcome, results, console, failed, requests>>
                 ELSE /\ outcome' = <<receipt>>
                      /\ requests' = Append(requests,
                                            Request(idx, resp, {"gasUsed", "cumulativeGasUsed"}))
                      /\ IF receipt.val.t = "record"
                         THEN /\ results' = Append(results,
                                                   [index |-> idx,
                                                    gasUsed |-> receipt.val.gasUsed,
                                                    cumulativeGas |-> receipt.val.cumulativeGasUsed,
                                                    type |-> receipt.val.type])
                              /\ console' = Append(console,
                                                   Msg("TX: gasUsed=, cumulative=, type=",
                                                       <<idx, receipt.val.gasUsed,
                                                         receipt.val.cumulativeGasUsed,
                                                         receipt.val.type>>))
                              /\ UNCHANGED failed
                         ELSE /\ failed' = failed \cup {ReceiptRequest(idx)}
                              /\ UNCHANGED <<results, console>>
                      /\ UNCHANGED <<pc, exc>>
    /\ todo' = Tail(todo)
    /\ UNCHANGED <<script, erigon_gas, rpc_gas, differences, cumulative_diff, reported, compared>>
    /\ UNCHANGED <<parseVars, cacheVars>>
    /\ UNCHANGED <<tx_hashes, tx_i, tx79, delegation_addresses, found_refs>>

\* compare_gas_block.main, lines 112-119: the receipt of transaction 220
GetLastReceipt ==
    /\ script = "compare_gas_block" /\ pc = "check"
    /\ todo = <<>>
    /\ method' = "eth_getTransactionReceipt"
    /\ \E resp \in ReceiptResponses(LastTx) :
          LET tx_hash == PyIndex(tx_hashes[1], LastTx)
              last_receipt == get_receipt_from_rpc(resp)
          IN  IF tx_hash.exc # "none"
              THEN /\ pc' = "crashed" /\ exc' = tx_hash.exc
                   /\ UNCHANGED <<response, outcome, console, failed, requests>>
              ELSE /\ pc' = "done"
                   /\ response' = <<resp>>
                   /\ requests' = Append(requests,
                                         Request(LastTx, resp, {"gasUsed", "cumulativeGasUsed"}))
                   /\ outcome' = <<last_receipt>>
                   /\ IF last_receipt.val.t = "record"
                      THEN /\ console' = console
                               \o <<Msg("TX 220: cumulative=",
                                        <<last_receipt.val.cumulativeGasUsed, EXPECTED_TOTAL_GAS>>),
                                    Msg(IF last_receipt.val.cumulativeGasUsed = EXPECTED_TOTAL_GAS
                                        THEN "Match: True" ELSE "Match: False", <<>>)>>
                           /\ UNCHANGED failed
                      ELSE /\ failed' = failed \cup {ReceiptRequest(LastTx)}
                           /\ UNCHANGED console
                   /\ UNCHANGED exc
    /\ UNCHANGED <<script, erigon_gas, rpc_gas, cmpVars, parseVars, cacheVars>>
    /\ UNCHANGED <<tx_hashes, tx_i, results, tx79, delegation_addresses, found_refs>>

\* str.lower() on the characters of a hex address
LowerChar(c) ==
    CASE c = "A" -> "a" [] c = "B" -> "b" [] c = "C" -> "c" [] c = "D" -> "d"
      [] c = "E" -> "e" [] c = "F" -> "f" [] OTHER -> c

\* x.lower(): only a str has the method
PyLower(x) ==
    IF x.t = "str"
    THEN Value(PyStr([j \in 1 .. Len(x.s) |-> LowerChar(x.s[j])]))
    ELSE Raise("AttributeError")

\* x[:20]
PySlice(x) ==
    IF x.t \in {"str", "list"} THEN Value(x) ELSE Raise("TypeError")

AddrA == PyStr(<<"0", "x", "a">>)
AddrAUpper == PyStr(<<"0", "x", "A">>)
AddrB == PyStr(<<"0", "x", "b">>)
AddrC == PyStr(<<"0", "x", "c">>)

\* a transaction object as eth_getBlockByNumber(.., True) gives it; extra holds
\* the members after "to"
TxObject(i, from, to, extra) ==
    PyDict(<<(<<"hash", TxHash(i)>>), (<<"from", from>>), (<<"to", to>>)>> \o extra)

TypeMember(chars) == <<(<<"type", PyStr(chars)>>)>>
AuthMember(auths) == <<(<<"authorizationList", PyList(auths)>>)>>
Authorization(address) ==
    PyDict(<<(<<"chainId", PyStr(<<"0", "x", "1">>)>>), (<<"address", address>>),
             (<<"nonce", PyStr(<<"0", "x", "0">>)>>)>>)

\* what transaction 79 of block 23800001 may look like: the type-4 transaction
\* with its authorization list, one with an authorization that has no address,
\* one without a list, a contract creation (to is null), one without a type
Tx79Variants ==
    { TxObject(TX79, AddrA, AddrC, TypeMember(<<"0", "x", "4">>) \o AuthMember(<<Authorization(AddrB)>>)),
      TxObject(TX79, AddrA, AddrC,
               TypeMember(<<"0", "x", "4">>)
               \o AuthMember(<<PyDict(<<(<<"chainId", PyStr(<<"0", "x", "1">>)>>)>>)>>)),
      TxObject(TX79, AddrA, AddrC, TypeMember(<<"0", "x", "2">>)),
      TxObject(TX79, AddrA, PyNone, TypeMember(<<"0", "x", "2">>)),
      TxObject(TX79, AddrA, AddrC, <<>>) }

\* a block with the given transaction objects
FullBlock(txs) ==
    PyDict(<<(<<"number", PyStr(<<"0", "x", "1">>)>>), (<<"transactions", PyList(txs)>>)>>)

PlainTx(i) == TxObject(i, AddrC, AddrC, TypeMember(<<"0", "x", "2">>))

\* the answers to a request that failed or gave no block
NoBlockResponses ==
    {HttpError("URLError"), BadBody, ErrorAnswer, Answer(PyNone),
     Answer(PyDict(<<(<<"number", PyStr(<<"0", "x", "1">>)>>)>>))}

\* the answers to the request for block 23800001
Block1Responses ==
    NoBlockResponses
    \cup {Answer(FullBlock([j \in 1 .. n |-> PlainTx(j - 1)])) : n \in 0 .. MaxTxs}
    \cup {Answer(FullBlock([j \in 1 .. TX79 + 1 |-> IF j = TX79 + 1 THEN tx ELSE PlainTx(j - 1)])) :
             tx \in Tx79Variants}

\* the answers to the request for the receipt of transaction 79
Tx79ReceiptResponses ==
    {HttpError("timeout"), Answer(PyNone), Answer(ReceiptOf(Hex250)),
     Answer(PyDict(<<(<<"status", PyStr(<<"0", "x", "1">>)>>), (<<"gasUsed", Hex250>>),
                     (<<"cumulativeGasUsed", Hex250>>)>>))}

\* the transactions of block 23800003: sent by the sender of transaction 79
\* (address in upper case), sent to the delegation address, a contract
\* creation (to is null)
Block3Txs(i) ==
    { TxObject(i, AddrAUpper, AddrC, TypeMember(<<"0", "x", "2">>)),
      TxObject(i, AddrC, AddrB, TypeMember(<<"0", "x", "2">>)),
      TxObject(i, AddrC, PyNone, TypeMember(<<"0", "x", "2">>)) }

RECURSIVE TxLists(_)
TxLists(n) ==
    IF n = 0 THEN {<<>>}
    ELSE {Append(txs, tx) : txs \in TxLists(n - 1), tx \in Block3Txs(n - 1)}

\* the answers to the request for block 23800003
Block3Responses ==
    NoBlockResponses
    \cup {Answer(FullBlock(txs)) : txs \in UNION {TxLists(n) : n \in 0 .. MaxTxs}}

\* for i, auth in enumerate(auth_list): addr = auth.get("address", "N/A"), lines 57-62
AuthAddresses(auth_list) ==
    IF auth_list.t = "list"
    THEN IF \E j \in 1 .. Len(auth_list.items) : auth_list.items[j].t # "dict"
         THEN Raise("AttributeError")
         ELSE Value(PyList([j \in 1 .. Len(auth_list.items) |->
                               PyGet(auth_list.items[j], "address", PyStr(<<"N", "/", "A">>)).val]))
    ELSE IF auth_list.t \in {"str", "dict"}
    THEN IF Truthy(auth_list) THEN Raise("AttributeError") ELSE Value(PyList(<<>>))
    ELSE Raise("TypeError")

\* check_delegation.main, lines 47-62, on the block that was returned: the
\* value is transaction 79, or the first exception raised
InspectTx79(block) ==
    LET transactions == PySubscript(block, "transactions")
        tx == PyIndex(transactions.val, TX79)
        hash == PySubscript(tx.val, "hash")
        from == PySubscript(tx.val, "from")
        to == PyGet(tx.val, "to", PyStr(<<"N", "o", "n", "e">>))
        type == ReceiptField(tx.val, "type")
        auth_list == PyGet(tx.val, "authorizationList", PyList(<<>>))
        entries == PyLen(auth_list.val)
        addresses == AuthAddresses(auth_list.val)
    IN  FirstRaised(<<transactions, tx, hash, from, to, type, auth_list, entries, addresses, tx>>)

\* the found references of one transaction, lines 82-85 and 100-103
RefsOf(i, tx, addr) ==
    LET from == PyGet(tx, "from", PyStr(<<>>))
        fromLower == PyLower(from.val)
        addrLower == PyLower(addr)
        fromHash == IF fromLower.val = addrLower.val THEN PySubscript(tx, "hash") ELSE Value(PyNone)
        to == PyGet(tx, "to", PyStr(<<>>))
        toLower == PyLower(to.val)
        toHash == IF toLower.val = addrLower.val THEN PySubscript(tx, "hash") ELSE Value(PyNone)
        raised == FirstRaised(<<from, fromLower, addrLower, fromHash, to, toLower, toHash>>)
    IN  IF raised.exc # "none" THEN raised
        ELSE Value(PyList((IF fromLower.val = addrLower.val
                           THEN <<[idx |-> i, field |-> "from", hash |-> fromHash.val]>>
                           ELSE <<>>)
                          \o (IF toLower.val = addrLower.val
                              THEN <<[idx |-> i, field |-> "to", hash |-> toHash.val]>>
                              ELSE <<>>)))

\* for i, tx in enumerate(block3["transactions"]) over the first n transactions
RECURSIVE RefsUpTo(_, _, _)
RefsUpTo(txs, n, addr) ==
    IF n = 0 THEN Value(PyList(<<>>))
    ELSE LET before == RefsUpTo(txs, n - 1, addr)
             here == RefsOf(n - 1, txs[n], addr)
         IN  IF before.exc # "none" THEN before
             ELSE IF here.exc # "none" THEN here
             ELSE Value(PyList(before.val.items \o here.val.items))

\* the loop over block3["transactions"] and the print of what it found,
\* lines 80-92 and 98-110
FindRefs(block3, addr) ==
    LET transactions == PySubscript(block3, "transactions")
        refs == IF transactions.val.t = "list"
                THEN RefsUpTo(transactions.val.items, Len(transactions.val.items), addr)
                ELSE IF transactions.val.t \notin {"str", "dict"} THEN Raise("TypeError")
                ELSE IF Truthy(transactions.val) THEN Raise("AttributeError")
                ELSE Value(PyList(<<>>))
        printed == IF \E j \in 1 .. Len(refs.val.items) : PySlice(refs.val.items[j].hash).exc # "none"
                   THEN Raise("TypeError")
                   ELSE refs
    IN  IF transactions.exc # "none" THEN transactions
        ELSE IF refs.exc # "none" THEN refs
        ELSE printed

\* the loop over delegation_addresses, lines 95-110: the first exception
\* raised, or the number of references of each address
RECURSIVE FindDelegations(_, _)
FindDelegations(block3, addrs) ==
    IF addrs = <<>> THEN Value(<<>>)
    ELSE LET found_deleg == FindRefs(block3, Head(addrs))
             rest == FindDelegations(block3, Tail(addrs))
         IN  IF found_deleg.exc # "none" THEN found_deleg
             ELSE IF rest.exc # "none" THEN rest
             ELSE Value(<<Len(found_deleg.val.items)>> \o rest.val)

\* check_delegation.main, lines 41-63: transaction 79 of block 23800001
CheckTx79 ==
    /\ script = "check_delegation" /\ pc = "start"
    /\ method' = "eth_getBlockByNumber"
    /\ \E resp \in Block1Responses :
          LET block == rpc_call(resp)
              inspected == InspectTx79(block.val)
              printed == IF block.logged THEN Append(console, Msg("Error", <<>>)) ELSE console
          IN  /\ response' = <<resp>>
              /\ outcome' = <<block>>
              /\ IF block.exc # "none"
                 THEN /\ pc' = "crashed" /\ exc' = block.exc
                      /\ console' = printed
                      /\ failed' = failed \cup {BlockRequest}
                      /\ UNCHANGED <<tx79, delegation_addresses>>
                 ELSE IF ~Truthy(block.val)
                 THEN /\ pc' = "done"
                      /\ console' = Append(printed, Msg("Failed to get block", <<>>))
                      /\ failed' = failed \cup {BlockRequest}
                      /\ UNCHANGED <<exc, tx79, delegation_addresses>>
                 ELSE IF inspected.exc # "none"
                 THEN /\ pc' = "crashed" /\ exc' = inspected.exc
                      /\ console' = printed
                      /\ UNCHANGED <<failed, tx79, delegation_addresses>>
                 ELSE /\ pc' = "receipt"
                      /\ tx79' = <<inspected.val>>
                      /\ delegation_addresses' =
                            AuthAddresses(PyGet(inspected.val, "authorizationList",
                                                PyList(<<>>)).val).val.items
                      /\ console' = Append(printed,
                                           Msg("Hash, From, To, Type, Authorization List",
                                               <<ReceiptField(inspected.val, "type").val.n>>))
                      /\ UNCHANGED <<exc, failed>>
    /\ UNCHANGED <<script, erigon_gas, rpc_gas, cmpVars, parseVars, cacheVars>>
    /\ UNCHANGED <<tx_hashes, tx_i, results, found_refs, requests>>

\* check_delegation.main, lines 65-71: the receipt of transaction 79
CheckReceipt ==
    /\ script = "check_delegation" /\ pc = "receipt"
    /\ method' = "eth_getTransactionReceipt"
    /\ \E resp \in Tx79ReceiptResponses :
          LET receipt == rpc_call(resp)
              status == ReceiptField(receipt.val, "status")
              gasUsed == ReceiptField(receipt.val, "gasUsed")
              cumulativeGas == ReceiptField(receipt.val, "cumulativeGasUsed")
              fields == FirstRaised(<<status, gasUsed, cumulativeGas>>)
              printed == IF receipt.logged THEN Append(console, Msg("Error", <<>>)) ELSE console
          IN  /\ response' = <<resp>>
              /\ outcome' = <<receipt>>
              /\ requests' = Append(requests,
                                    Request(TX79, resp, {"status", "gasUsed", "cumulativeGasUsed"}))
              /\ IF receipt.exc # "none"
                 THEN /\ pc' = "crashed" /\ exc' = receipt.exc
                      /\ console' = printed
                      /\ failed' = failed \cup {ReceiptRequest(TX79)}
                 ELSE IF ~Truthy(receipt.val)
                 THEN /\ pc' = "scan"
                      /\ console' = printed
                      /\ failed' = failed \cup {ReceiptRequest(TX79)}
                      /\ UNCHANGED exc
                 ELSE IF fields.exc # "none"
                 THEN /\ pc' = "crashed" /\ exc' = fields.exc
                      /\ console' = Append(printed, Msg("Receipt:", <<>>))
                      /\ UNCHANGED failed
                 ELSE /\ pc' = "scan"
                      /\ console' = printed
                            \o <<Msg("Receipt:", <<>>),
                                 Msg("Status, GasUsed, CumulativeGas",
                                     <<status.val.n, gasUsed.val.n, cumulativeGas.val.n>>)>>
                      /\ UNCHANGED <<exc, failed>>
    /\ UNCHANGED <<script, erigon_gas, rpc_gas, cmpVars, parseVars, cacheVars>>
    /\ UNCHANGED <<tx_hashes, tx_i, results, tx79, delegation_addresses, found_refs>>

\* check_delegation.main, lines 73-110: the references in block 23800003
ScanBlock3 ==
    /\ script = "check_delegation" /\ pc = "scan"
    /\ method' = "eth_getBlockByNumber"
    /\ \E resp \in Block3Responses :
          LET block3 == rpc_call(resp)
              refs == FindRefs(block3.val, Item(tx79[1].members, "from"))
              delegations == FindDelegations(block3.val, delegation_addresses)
              printed == IF block3.logged THEN Append(console, Msg("Error", <<>>)) ELSE console
          IN  /\ response' = <<resp>>
              /\ outcome' = <<block3>>
              /\ IF block3.exc # "none"
                 THEN /\ pc' = "crashed" /\ exc' = block3.exc
                      /\ console' = printed
                      /\ failed' = failed \cup {BlockRequest}
                      /\ UNCHANGED found_refs
                 ELSE IF ~Truthy(block3.val)
                 THEN /\ pc' = "done"
                      /\ console' = Append(printed, Msg("Failed to get block", <<>>))
                      /\ failed' = failed \cup {BlockRequest}
                      /\ UNCHANGED <<exc, found_refs>>
                 ELSE IF refs.exc # "none"
                 THEN /\ pc' = "crashed" /\ exc' = refs.exc
                      /\ console' = printed
                      /\ UNCHANGED <<failed, found_refs>>
                 ELSE IF delegations.exc # "none"
                 THEN /\ pc' = "crashed" /\ exc' = delegations.exc
                      /\ found_refs' = refs.val.items
                      /\ console' = Append(printed, Msg("references found", <<Len(refs.val.items)>>))
                      /\ UNCHANGED failed
                 ELSE /\ pc' = "done"
                      /\ found_refs' = refs.val.items
                      /\ console' = printed
                            \o <<Msg("references found", <<Len(refs.val.items)>>),
                                 Msg("references to the delegation addresses", delegations.val)>>
                      /\ UNCHANGED <<exc, failed>>
    /\ UNCHANGED <<script, erigon_gas, rpc_gas, cmpVars, parseVars, cacheVars>>
    /\ UNCHANGED <<tx_hashes, tx_i, results, tx79, delegation_addresses, requests>>

NextMain ==
    \/ GetBlockReceipts
    \/ FetchGasUsed
    \/ GetBlockReceiptsReturn
    \/ SaveCache
    \/ GetAllReceipts
    \/ FetchReceipt
    \/ FetchOnlyReport
    \/ GetTxHashes
    \/ CheckIndex
    \/ GetLastReceipt
    \/ CheckTx79
    \/ CheckReceipt
    \/ ScanBlock3

SpecMain == InitMain /\ [][NextMain]_vars

-----------------------------------------------------------------------------
(* Properties of the main flows *)

\* the lines that report the failure of a request
FailureLines(item) ==
    IF item = BlockRequest
    THEN {Msg("Error getting block", <<>>), Msg("Error", <<>>),
          Msg("Failed to get block", <<>>), Msg("Failed to get transactions", <<>>)}
    ELSE {Msg("Error fetching TX", <<item[2]>>), Msg("Error", <<>>)}

Logged(item) == \E j \in 1 .. Len(console) : console[j] \in FailureLines(item)

\* C7 as stated: in every script the failure of a request, the block listing
\* or a receipt, is caught where the request is made, is logged to the console
\* and counts as no data for that item, and the script goes on.
C7_AsStated ==
    /\ exc = "none"
    /\ \A item \in failed : Logged(item)

\* C8 as stated: whatever the endpoint answers, no main flow ends by an
\* uncaught exception; transaction 220 and transaction 79 are accessed only
\* when they exist.
C8_AsStated == pc # "crashed"

-----------------------------------------------------------------------------
(* Properties of the receipt loop of get_block_receipts and get_all_receipts *)

FetchScripts == {"find_diff_tx", "compare_all_gas"}

\* the block was listed: the receipt loop runs or has run
Listing == script \in FetchScripts /\ tx_hashes # None

\* the requests made so far are those of the indices 0, 1, 2, .. in this order,
\* one for each index below tx_i, and all n of them once the loop is left
OneRequestPerIndex ==
    /\ \A j \in 1 .. Len(requests) : requests[j].index = j - 1
    /\ Len(requests) = tx_i
    /\ tx_i <= Len(tx_hashes[1].items)
    /\ pc # "fetch" => Len(requests) = Len(tx_hashes[1].items)

\* the indices whose request was answered in one of the given ways
Answered(kinds) == {requests[j].index : j \in {k \in 1 .. Len(requests) : requests[k].answer \in kinds}}

\* C11 as stated: one receipt request for each index 0..n-1, in ascending
\* order, none retried and none left out after a failure, and the keys of the
\* returned mapping are the indices whose request returned a non-empty result.
C11_AsStated ==
    Listing =>
        /\ OneRequestPerIndex
        /\ KeySet(rpc_gas) = Answered({"malformed", "receipt"})

\* C11 amended: one receipt request for each index 0..n-1, in ascending order,
\* none retried and none left out after a failure, and the keys of the
\* returned mapping are the indices whose request returned a non-empty result
\* that carries the gas fields the script reads as hex strings.
C11_OneRequestPerIndex ==
    Listing =>
        /\ OneRequestPerIndex
        /\ KeySet(rpc_gas) = Answered({"receipt"})

\* C11 witness: the 221 receipts of the block were requested; the first request
\* got no result and the second a result without the gas fields, and all later
\* ones were made and stored
C11_Witness ==
    /\ Listing /\ pc # "fetch"
    /\ Len(requests) = LastTx + 1
    /\ requests[1].answer = "none" /\ requests[2].answer = "malformed"
    /\ KeySet(rpc_gas) = 2 .. LastTx

-----------------------------------------------------------------------------
(* check_type4.main: the type-4 transactions of four blocks *)

\* check_type4.main, line 40
blocks_to_check == <<23800000, 23800001, 23800002, 23800003>>

\* a plausible slip: a transaction without a type counted as type 4
DefaultTxTypeFour == PyStr(<<"0", "x", "4">>)

\* the default of tx.get("type", "0x0")
DefaultTxType == PyStr(<<"0", "x", "0">>)

\* x[:3]
PyFirstThree(x) ==
    CASE x.t = "list" -> Value(PyList(SubSeq(x.items, 1, IF Len(x.items) < 3 THEN Len(x.items) ELSE 3)))
      [] x.t = "str" -> Value(PyStr(SubSeq(x.s, 1, IF Len(x.s) < 3 THEN Len(x.s) ELSE 3)))
      [] OTHER -> Raise("TypeError")

\* what one transaction adds to the output, lines 55-61: the lines printed and
\* the increment of type4_count, or the first exception raised
Type4Of(i, tx) ==
    LET type == PyGet(tx, "type", DefaultTxType)
        tx_type == PyIntBase16(type.val)
        auth_list == PyGet(tx, "authorizationList", PyList(<<>>))
        hash == PySubscript(tx, "hash")
        hash20 == PySlice(hash.val)
        entries == PyLen(auth_list.val)
        shown == PyFirstThree(auth_list.val)
        addresses == AuthAddresses(shown.val)
        raised == FirstRaised(<<auth_list, hash, hash20, entries, shown, addresses>>)
    IN  IF type.exc # "none" THEN type
        ELSE IF tx_type.exc # "none" THEN tx_type
        ELSE IF tx_type.val.n # 4 THEN Value([count |-> 0, lines |-> <<>>])
        ELSE IF raised.exc # "none" THEN raised
        ELSE Value([count |-> 1,
                    lines |-> <<Msg("TX (type=4): hash=, authList= entries", <<i, entries.val.n>>)>>
                              \o [j \in 1 .. Len(shown.val.items) |-> Msg("auth[]: address=", <<j - 1>>)]])

\* for i, tx in enumerate(txs) over the first n transactions, lines 53-61
RECURSIVE Type4UpTo(_, _)
Type4UpTo(txs, n) ==
    IF n = 0 THEN Value([count |-> 0, lines |-> <<>>])
    ELSE LET before == Type4UpTo(txs, n - 1)
             here == Type4Of(n - 1, txs[n])
         IN  IF before.exc # "none" THEN before
             ELSE IF here.exc # "none" THEN here
             ELSE Value([count |-> before.val.count + here.val.count,
                         lines |-> before.val.lines \o here.val.lines])

\* the body of the loop for a block that was fetched, lines 49-63
Type4Report(block) ==
    LET txs == PyGet(block, "transactions", PyList(<<>>))
        total == PyLen(txs.val)
        gasUsed == PyGet(block, "gasUsed", PyStr(<<"0", "x", "0">>))
        gas == PyIntBase16(gasUsed.val)
        header == FirstRaised(<<txs, total, gasUsed, gas>>)
        scan == IF txs.val.t = "list" THEN Type4UpTo(txs.val.items, Len(txs.val.items))
                ELSE IF Truthy(txs.val) THEN Raise("AttributeError")
                ELSE Value([count |-> 0, lines |-> <<>>])
    IN  IF header.exc # "none" THEN header
        ELSE IF scan.exc # "none" THEN scan
        ELSE Value([count |-> scan.val.count,
                    lines |-> <<Msg("Total transactions", <<total.val.n>>),
                                Msg("Gas used (header)", <<gas.val.n>>)>>
                              \o scan.val.lines
                              \o <<Msg("Type=4 transactions", <<scan.val.count>>)>>])

\* transactions of the four blocks: a type-4 transaction with n authorizations,
\* a type-2 transaction, a transaction without a type
Type4Tx(i, n) ==
    TxObject(i, AddrA, AddrC,
             TypeMember(<<"0", "x", "4">>) \o AuthMember([j \in 1 .. n |-> Authorization(AddrB)]))
UntypedTx(i) == TxObject(i, AddrC, AddrC, <<>>)

\* the blocks the endpoint may give: without transactions, with one, with
\* type-4 transactions among others, one without the gasUsed member
Type4Blocks ==
    { PyDict(<<(<<"gasUsed", Hex100>>), (<<"transactions", PyList(<<>>)>>)>>),
      PyDict(<<(<<"gasUsed", Hex100>>)>>),
      PyDict(<<(<<"gasUsed", Hex250>>), (<<"transactions", PyList(<<PlainTx(0)>>)>>)>>),
      PyDict(<<(<<"gasUsed", Hex250>>), (<<"transactions", PyList(<<UntypedTx(0), PlainTx(1)>>)>>)>>),
      PyDict(<<(<<"gasUsed", Hex250>>), (<<"transactions", PyList(<<Type4Tx(0, 1)>>)>>)>>),
      PyDict(<<(<<"transactions", PyList(<<PlainTx(0), Type4Tx(1, 4), UntypedTx(2), Type4Tx(3, 0)>>)>>)>>) }

\* the answers to the request for a block
Type4Responses ==
    {HttpError("URLError"), BadBody, ErrorAnswer, Answer(PyNone), Answer(PyDict(<<>>))}
    \cup {Answer(block) : block \in Type4Blocks}

InitType4 ==
    /\ script = "check_type4"
    /\ pc = "blocks"
    /\ todo = blocks_to_check
    /\ differences = <<>> /\ cumulative_diff = 0 /\ reported = None /\ compared = <<>>
    /\ erigon_gas = <<>>
    /\ rpc_gas = <<>>
    /\ IdleParse /\ IdleCache /\ NoRequest /\ IdleMain

\* one round of the loop over blocks_to_check, check_type4.main lines 42-64
CheckBlock ==
    /\ script = "check_type4" /\ pc = "blocks"
    /\ todo # <<>>
    /\ method' = "eth_getBlockByNumber"
    /\ \E resp \in Type4Responses :
          LET block_num == Head(todo)
              block == get_block(resp)
              report == Type4Report(block.val)
              printed == Append(console, Msg("=== Block ===", <<block_num>>))
                         \o (IF block.logged THEN <<Msg("Error getting block", <<>>)>> ELSE <<>>)
          IN  /\ response' = <<resp>>
              /\ outcome' = <<block>>
              /\ IF block.exc # "none"
                 THEN /\ pc' = "crashed" /\ exc' = block.exc
                      /\ console' = printed
                      /\ failed' = failed \cup {<<"block", block_num>>}
                 ELSE IF ~Truthy(block.val)
                 THEN /\ pc' = IF Tail(todo) = <<>> THEN "done" ELSE "blocks"
                      /\ console' = Append(printed, Msg("Failed to fetch", <<>>))
                      /\ failed' = failed \cup {<<"block", block_num>>}
                      /\ UNCHANGED exc
                 ELSE IF report.exc # "none"
                 THEN /\ pc' = "crashed" /\ exc' = report.exc
                      /\ console' = printed
                      /\ UNCHANGED failed
                 ELSE /\ pc' = IF Tail(todo) = <<>> THEN "done" ELSE "blocks"
                      /\ console' = printed \o report.val.lines
                      /\ UNCHANGED <<exc, failed>>
    /\ todo' = Tail(todo)
    /\ UNCHANGED <<script, erigon_gas, rpc_gas, differences, cumulative_diff, reported, compared>>
    /\ UNCHANGED <<parseVars, cacheVars>>
    /\ UNCHANGED <<tx_hashes, tx_i, results, tx79, delegation_addresses, found_refs, requests>>

NextType4 == CheckBlock

SpecType4 == InitType4 /\ [][NextType4]_vars

-----------------------------------------------------------------------------
(* Properties of check_type4 *)

\* the request gave a block: a result that is not empty
BlockFetched(resp) == CarriesResult(resp) /\ Truthy(ResultOf(resp))

\* the type member of the transaction is there and denotes 4
IsType4(tx) ==
    /\ "type" \in KeySet(tx.members)
    /\ IsHexStr(Item(tx.members, "type"))
    /\ HexValue(SubSeq(Item(tx.members, "type").s, 3, Len(Item(tx.members, "type").s))) = 4

\* the number of type-4 transactions of a block
Type4Count(block) ==
    IF "transactions" \in KeySet(block.members)
    THEN LET txs == Item(block.members, "transactions").items
         IN  Cardinality({j \in 1 .. Len(txs) : IsType4(txs[j])})
    ELSE 0

\* the printed lines with the given text
LinesWith(text) ==
    LET has(line) == line.text = text
    IN  SelectSeq(console, has)

\* the blocks visited so far, in the order of their header lines
Visited == [j \in 1 .. Len(LinesWith("=== Block ===")) |-> LinesWith("=== Block ===")[j].args[1]]

-----------------------------------------------------------------------------
(* Properties of the fetch-only mode of compare_all_gas *)

\* the indices of the printed txIndex=N gasUsed=M lines
PrintedIndices == {LinesWith("txIndex= gasUsed=")[j].args[1] : j \in 1 .. Len(LinesWith("txIndex= gasUsed="))}

\* C15 as stated: in the fetch-only mode of compare_all_gas the printed list
\* has one txIndex=N gasUsed=M line for every index whose receipt was fetched,
\* also when receipts of lower indices are missing.
C15_AsStated ==
    (script = "compare_all_gas" /\ pc = "done") =>
        /\ PrintedIndices = KeySet(rpc_gas)
        /\ Len(LinesWith("txIndex= gasUsed=")) = Len(rpc_gas)

=============================================================================
